---- MODULE Spec2Model ----
(***************************************************************************)
(* A model of the CivIdle client slice:                                    *)
(*   - TransportPool (scenes/TransportPool.ts) on top of the ObjectPool    *)
(*     base class, whose allocate/release are not part of the slice and    *)
(*     are modelled from the specification's contract (section 4.1);       *)
(*   - the startGame bootstrap sequence;                                   *)
(*   - the React hooks of utilities/Hook.ts, run by a model of React's     *)
(*     useEffect (render, then cleanup of the previous effect when the     *)
(*     dependencies changed, then the new effect; cleanup on unmount);     *)
(*   - TechPage.unlock.                                                    *)
(* Each subsystem has a specification of its own (SpecPool, SpecStart,     *)
(* SpecHooks, SpecShortcut, SpecTech); the variables of the other          *)
(* subsystems stay at their initial values.                                *)
(***************************************************************************)
EXTENDS Integers, Sequences, FiniteSets, TLC

VARIABLES
    \* ---- TransportPool / ObjectPool ----
    heap,         \* the Sprite objects built so far: heap[i] is sprite i
    children,     \* this._parent's children, in addChild order
    idle,         \* ObjectPool: instances available for reuse (an array)
    active,       \* ObjectPool: instances currently handed out
    createCount,  \* number of calls of the construction hook
    op,           \* the last pool call, its argument/result and its hook calls
    calls,        \* number of pool calls so far
    outstanding,  \* caller's view: allocate results not yet given back
    phase,        \* caller's view: "alloc", "release" or "mixed"
    nAlloc,       \* number of allocate() calls
    nRel,         \* number of release() calls of an outstanding instance
    \* ---- startGame ----
    pc,           \* the statement of startGame that runs next
    data,         \* what loadGame() resolved to: "none" (not yet), "present", "absent"
    isNewPlayer,  \* startGame's local isNewPlayer
    log,          \* the calls startGame has made, in order
    gsTick,       \* gameState.tick
    secondTicks,  \* number of calls of tickEverySecond
    tickerAdded,  \* the frame callback is registered on app.ticker
    intervalSet,  \* the 1-second interval is registered
    frames,       \* number of calls of tickEveryFrame
    saves,        \* number of calls of saveGame
    errorPage,    \* the ErrorPage of checkSteamBranch is shown
    \* ---- hooks (Hook.ts) under React's useEffect ----
    mounted,      \* mounted[h]: the component of hook instance h is mounted
    pending,      \* pending[h]: "none", or the commit step that is due
    rendered,     \* rendered[h]: the dependencies of h's latest render
    effect,       \* effect[h]: the dependencies of h's effect in place
    gen,          \* gen[h]: number of renders of h (names its closures)
    dirty,        \* dirty[h]: h's state setter was called since its render
    listeners,    \* listeners[e]: the listeners registered on typed event e
    shortcuts,    \* shortcuts[k]: the callback of getShortcuts()[k]
    \* ---- TechPage ----
    science,            \* the science amount of the game state
    unlockedTech,       \* gs.unlockedTech: the techs that are unlocked
    greatPeopleChoices, \* gs.greatPeopleChoices.length
    closure,            \* what the committed render of TechPage captured
    unlockCalls,        \* number of calls of unlock
    lastResult,         \* how the last call of unlock ended
    sound,              \* the last sound played
    notified            \* notifyGameStateUpdate was called since the render

poolVars == <<heap, children, idle, active, createCount, op, calls,
              outstanding, phase, nAlloc, nRel>>

startVars == <<pc, data, isNewPlayer, log, gsTick, secondTicks, tickerAdded,
               intervalSet, frames, saves, errorPage>>

reactVars == <<mounted, pending, rendered, effect, gen, dirty, listeners,
               shortcuts>>

techVars == <<science, unlockedTech, greatPeopleChoices, closure, unlockCalls,
              lastResult, sound, notified>>

vars == <<poolVars, startVars, reactVars, techVars>>

\* ------------------------------------------------------------------ bounds
MaxSprites == 3
MaxCalls == 7
MaxSavedTick == 4
MaxFrames == 3
MaxSeconds == 6
MaxRenders == 5
MaxScience == 6
MaxUnlockCalls == 4

\* --------------------------------------------------------------- helpers
Range(s) == {s[i] : i \in 1..Len(s)}

RemoveAt(s, i) == SubSeq(s, 1, i - 1) \o SubSeq(s, i + 1, Len(s))

Count(s, x) == Cardinality({i \in 1..Len(s) : s[i] = x})

\* A Sprite that no pool built (an object of the caller's own).
Foreign == 0

\* ------------------------------------------------------- TransportPool
\* alpha, scale and anchor are kept in hundredths.
DefaultAlpha == 50

\* new Sprite(texture): PIXI's defaults, alpha 1, scale 1, anchor 0.
NewSprite == [alpha |-> 100, scale |-> 100, anchorX |-> 0, anchorY |-> 0]

\* Mutant of create: the sprite is built but not attached to the parent.
createDetached(h, ch) ==
    [visual   |-> Len(h) + 1,
     heap     |-> Append(h, [NewSprite EXCEPT !.scale = 15, !.anchorX = 100,
                                              !.anchorY = 50]),
     children |-> ch]

\* Mutant of create: one cached sprite is handed out again and again.
createCached(h, ch) ==
    IF h = <<>>
    THEN [visual   |-> 1,
          heap     |-> <<[NewSprite EXCEPT !.scale = 15, !.anchorX = 100,
                                           !.anchorY = 50]>>,
          children |-> Append(ch, 1)]
    ELSE [visual |-> 1, heap |-> h, children |-> ch]

\* TransportPool.create: a new Sprite, added to the parent, scaled and anchored.
create(h, ch) ==
    [visual   |-> Len(h) + 1,
     heap     |-> Append(h, [NewSprite EXCEPT !.scale = 15, !.anchorX = 100,
                                              !.anchorY = 50]),
     children |-> Append(ch, Len(h) + 1)]

\* Mutant of onAllocate: the alpha is left as it was.
onAllocateNoAlpha(h, obj) == h

\* TransportPool.onAllocate
onAllocate(h, obj) == [h EXCEPT ![obj].alpha = DefaultAlpha]

\* TransportPool.onRelease
onRelease(h, obj) == [h EXCEPT ![obj].alpha = 0]

\* ---------------------------------------------------------- ObjectPool
\* The caller's bookkeeping of an allocate() that returned obj.
CallerAllocated(obj) ==
    /\ outstanding' = [outstanding EXCEPT ![obj] = @ + 1]
    /\ nAlloc' = nAlloc + 1
    /\ phase' = IF phase = "alloc" THEN "alloc" ELSE "mixed"
    /\ UNCHANGED nRel

\* The caller's bookkeeping of a release(obj).
CallerReleased(obj) ==
    IF obj \in DOMAIN outstanding /\ outstanding[obj] > 0
    THEN /\ outstanding' = [outstanding EXCEPT ![obj] = @ - 1]
         /\ nRel' = nRel + 1
         /\ phase' = IF phase = "mixed" THEN "mixed" ELSE "release"
         /\ UNCHANGED nAlloc
    ELSE /\ phase' = "mixed"
         /\ UNCHANGED <<outstanding, nAlloc, nRel>>

\* allocate(), idle set non-empty: one idle instance (which one is not
\* specified) moves to the active set, then the on-allocate hook runs on it.
allocateReuse ==
    /\ idle # <<>>
    /\ \E i \in 1..Len(idle) :
          LET obj == idle[i] IN
          /\ idle' = RemoveAt(idle, i)
          /\ active' = active \cup {obj}
          /\ heap' = onAllocate(heap, obj)
          /\ op' = [name |-> "allocate", obj |-> obj, fault |-> FALSE,
                    hooks |-> <<[hook |-> "onAllocate", obj |-> obj,
                                 inActive |-> obj \in active']>>]
          /\ CallerAllocated(obj)
    /\ UNCHANGED <<children, createCount>>

\* allocate(), idle set empty: the construction hook builds the instance.
allocateCreate ==
    /\ Len(heap) < MaxSprites
    /\ LET c == create(heap, children) IN
       /\ children' = c.children
       /\ createCount' = createCount + 1
       /\ active' = active \cup {c.visual}
       /\ heap' = onAllocate(c.heap, c.visual)
       /\ op' = [name |-> "allocate", obj |-> c.visual, fault |-> FALSE,
                 hooks |-> <<[hook |-> "onAllocate", obj |-> c.visual,
                              inActive |-> c.visual \in active']>>]
       /\ CallerAllocated(c.visual)
    /\ UNCHANGED idle

\* Mutant of allocate: growth before reuse.
allocateGrowFirst ==
    /\ calls < MaxCalls
    /\ calls' = calls + 1
    /\ \/ allocateCreate
       \/ allocateReuse

\* ObjectPool.allocate
allocate ==
    /\ calls < MaxCalls
    /\ calls' = calls + 1
    /\ \/ allocateReuse
       \/ idle = <<>> /\ allocateCreate

\* release(obj) of an active instance: active -> idle, then on-release.
releaseMove(obj) ==
    /\ active' = active \ {obj}
    /\ heap' = IF obj \in 1..Len(heap) THEN onRelease(heap, obj) ELSE heap
    /\ idle' = Append(idle, obj)
    /\ op' = [name |-> "release", obj |-> obj, fault |-> FALSE,
              hooks |-> <<[hook |-> "onRelease", obj |-> obj,
                           inActive |-> obj \in active']>>]
    /\ CallerReleased(obj)
    /\ UNCHANGED <<children, createCount>>

\* release(obj) of an instance that is not active: the fault path.
releaseFault(obj) ==
    /\ op' = [name |-> "release", obj |-> obj, fault |-> TRUE, hooks |-> <<>>]
    /\ CallerReleased(obj)
    /\ UNCHANGED <<heap, children, idle, active, createCount>>

\* Mutant of release: the precondition is not checked.
releaseUnchecked(obj) ==
    /\ calls < MaxCalls
    /\ calls' = calls + 1
    /\ releaseMove(obj)

\* ObjectPool.release
release(obj) ==
    /\ calls < MaxCalls
    /\ calls' = calls + 1
    /\ IF obj \in active THEN releaseMove(obj) ELSE releaseFault(obj)

PoolInit ==
    /\ heap = <<>>
    /\ children = <<>>
    /\ idle = <<>>
    /\ active = {}
    /\ createCount = 0
    /\ op = [name |-> "new", obj |-> Foreign, fault |-> FALSE, hooks |-> <<>>]
    /\ calls = 0
    /\ outstanding = [i \in 0..MaxSprites |-> 0]
    /\ phase = "alloc"
    /\ nAlloc = 0
    /\ nRel = 0

Allocate == allocate /\ UNCHANGED <<startVars, reactVars, techVars>>

Release ==
    /\ \E obj \in {Foreign} \cup (1..Len(heap)) : release(obj)
    /\ UNCHANGED <<startVars, reactVars, techVars>>

\* ------------------------------------------------------------ startGame
StartInit ==
    /\ pc = "loadGame"
    /\ data = "none"
    /\ isNewPlayer = FALSE
    /\ log = <<>>
    /\ gsTick = 0
    /\ secondTicks = 0
    /\ tickerAdded = FALSE
    /\ intervalSet = FALSE
    /\ frames = 0
    /\ saves = 0
    /\ errorPage = FALSE

\* tickEverySecond(gameState): one more tick of the game state.
tickEverySecond ==
    /\ gsTick' = gsTick + 1
    /\ secondTicks' = secondTicks + 1

\* const data = await loadGame(); if (data) ... else isNewPlayer = true
LoadGame ==
    /\ pc = "loadGame"
    /\ \/ /\ data' = "present"
          /\ pc' = "initializeSavedGame"
          /\ log' = Append(log, "loadGame")
          /\ UNCHANGED isNewPlayer
       \/ /\ data' = "absent"
          /\ isNewPlayer' = TRUE
          /\ pc' = "getGameState"
          /\ log' = Append(log, "loadGame")
       \/ /\ pc' = "rejected"
          /\ UNCHANGED <<data, isNewPlayer, log>>
    /\ UNCHANGED <<gsTick, secondTicks, tickerAdded, intervalSet, frames,
                   saves, errorPage>>
    /\ UNCHANGED <<poolVars, reactVars, techVars>>

\* initializeSavedGame(data): the saved game state replaces the default one.
InitializeSavedGame ==
    /\ pc = "initializeSavedGame"
    /\ \E t \in 0..MaxSavedTick : gsTick' = t
    /\ log' = Append(log, "initializeSavedGame")
    /\ pc' = "getGameState"
    /\ UNCHANGED <<data, isNewPlayer, secondTicks, tickerAdded, intervalSet,
                   frames, saves, errorPage>>
    /\ UNCHANGED <<poolVars, reactVars, techVars>>

\* getGameState, verifyBuildingTextures, new Grid; then the new player branch.
GetGameState ==
    /\ pc = "getGameState"
    /\ log' = Append(log, "newGrid")
    /\ pc' = IF isNewPlayer THEN "initializeGameState" ELSE "initializeSingletons"
    /\ UNCHANGED <<data, isNewPlayer, gsTick, secondTicks, tickerAdded,
                   intervalSet, frames, saves, errorPage>>
    /\ UNCHANGED <<poolVars, reactVars, techVars>>

\* if (isNewPlayer) initializeGameState(gameState, grid)
InitializeGameState ==
    /\ pc = "initializeGameState"
    /\ log' = Append(log, "initializeGameState")
    /\ pc' = "initializeSingletons"
    /\ UNCHANGED <<data, isNewPlayer, gsTick, secondTicks, tickerAdded,
                   intervalSet, frames, saves, errorPage>>
    /\ UNCHANGED <<poolVars, reactVars, techVars>>

\* syncUITheme, calculateTierAndPrice, initializeSingletons
InitializeSingletons ==
    /\ pc = "initializeSingletons"
    /\ log' = Append(log, "initializeSingletons")
    /\ pc' = "connectWebSocket"
    /\ UNCHANGED <<data, isNewPlayer, gsTick, secondTicks, tickerAdded,
                   intervalSet, frames, saves, errorPage>>
    /\ UNCHANGED <<poolVars, reactVars, techVars>>

\* Mutant of ConnectWebSocket: the scene is loaded right after connecting.
ConnectThenLoadScene ==
    /\ pc = "connectWebSocket"
    /\ \/ /\ pc' = "loadScene"
          /\ log' = Append(log, "connectWebSocket")
       \/ /\ pc' = "rejected"
          /\ UNCHANGED log
    /\ UNCHANGED <<data, isNewPlayer, gsTick, secondTicks, tickerAdded,
                   intervalSet, frames, saves, errorPage>>
    /\ UNCHANGED <<poolVars, reactVars, techVars>>

\* await connectWebSocket(): resolves, or rejects and startGame ends.
ConnectWebSocket ==
    /\ pc = "connectWebSocket"
    /\ \/ /\ pc' = "tickEverySecond"
          /\ log' = Append(log, "connectWebSocket")
       \/ /\ pc' = "rejected"
          /\ UNCHANGED log
    /\ UNCHANGED <<data, isNewPlayer, gsTick, secondTicks, tickerAdded,
                   intervalSet, frames, saves, errorPage>>
    /\ UNCHANGED <<poolVars, reactVars, techVars>>

\* tickEverySecond(gameState), before the scene is loaded
FirstTick ==
    /\ pc = "tickEverySecond"
    /\ tickEverySecond
    /\ log' = Append(log, "tickEverySecond")
    /\ pc' = "loadScene"
    /\ UNCHANGED <<data, isNewPlayer, tickerAdded, intervalSet, frames, saves,
                   errorPage>>
    /\ UNCHANGED <<poolVars, reactVars, techVars>>

\* Singleton().sceneManager.loadScene(WorldScene); notifyGameStateUpdate()
LoadScene ==
    /\ pc = "loadScene"
    /\ log' = Append(log, "loadScene")
    /\ pc' = "startTicker"
    /\ UNCHANGED <<data, isNewPlayer, gsTick, secondTicks, tickerAdded,
                   intervalSet, frames, saves, errorPage>>
    /\ UNCHANGED <<poolVars, reactVars, techVars>>

\* startTicker: ticker.add(...) and setInterval(..., 1000); then
\* checkSteamBranch runs up to its first await.
StartTicker ==
    /\ pc = "startTicker"
    /\ tickerAdded' = TRUE
    /\ intervalSet' = TRUE
    /\ log' = Append(log, "startTicker")
    /\ \E isSteam \in BOOLEAN :
          pc' = IF isSteam THEN "getBetaName" ELSE "done"
    /\ UNCHANGED <<data, isNewPlayer, gsTick, secondTicks, frames, saves,
                   errorPage>>
    /\ UNCHANGED <<poolVars, reactVars, techVars>>

\* const beta = await SteamClient.getBetaName(); if (beta !== "beta") routeTo
GetBetaName ==
    /\ pc = "getBetaName"
    /\ \E beta \in {"beta", "public"} : errorPage' = (beta # "beta")
    /\ pc' = "done"
    /\ UNCHANGED <<data, isNewPlayer, log, gsTick, secondTicks, tickerAdded,
                   intervalSet, frames, saves>>
    /\ UNCHANGED <<poolVars, reactVars, techVars>>

\* The callback of ticker.add: nothing when shouldTick() is false.
FrameCallback ==
    /\ tickerAdded
    /\ pc \in {"getBetaName", "done"}
    /\ frames < MaxFrames
    /\ \E shouldTick \in BOOLEAN :
          frames' = IF shouldTick THEN frames + 1 ELSE frames
    /\ UNCHANGED <<pc, data, isNewPlayer, log, gsTick, secondTicks,
                   tickerAdded, intervalSet, saves, errorPage>>
    /\ UNCHANGED <<poolVars, reactVars, techVars>>

\* The callback of setInterval: tickEverySecond, and saveGame every 5 ticks.
IntervalCallback ==
    /\ intervalSet
    /\ pc \in {"getBetaName", "done"}
    /\ secondTicks < MaxSeconds
    /\ tickEverySecond
    /\ saves' = IF gsTick' % 5 = 0 THEN saves + 1 ELSE saves
    /\ UNCHANGED <<pc, data, isNewPlayer, log, tickerAdded, intervalSet,
                   frames, errorPage>>
    /\ UNCHANGED <<poolVars, reactVars, techVars>>

\* ------------------------------------------------------------ Hook.ts
\* One mounted use of each hook (two of useTypedEvent, which may be given
\* the same listener), and two components that call useShortcut.
HookInst == {"observe", "typed1", "typed2", "refresh"}

ShortcutInst == {"pageA", "pageB"}

Inst == HookInst \cup ShortcutInst

Events == {"E1", "E2"}

Keys == {"TechPageUnlockTech", "TechPageGoBackToCity"}

\* The event that makeObservableHook(event, getter) was given.
ObservedEvent == "E1"

\* Functions are named by their owner and a number: <<h, n>> is the closure
\* that render n of instance h created; the caller's own functions, which
\* keep their identity across renders, are <<"caller", n>>.
CallerFns == {<<"caller", 1>>, <<"caller", 2>>}

NoFn == <<"none", 0>>

\* A dependency list: the event or shortcut, the function, the other deps.
NoDeps == [target |-> "none", fn |-> NoFn, extra |-> 0]

\* TypedEvent.on: the listener is added to the event's list.
on(ls, l) == Append(ls, l)

\* TypedEvent.off: the listener's first registration is removed, if any.
off(ls, l) ==
    IF l \in Range(ls)
    THEN RemoveAt(ls, CHOOSE i \in 1..Len(ls) :
                         ls[i] = l /\ \A j \in 1..(i - 1) : ls[j] # l)
    ELSE ls

\* observe(), of makeObservableHook: handleEvent is a new function per render.
observe(h, n) == [target |-> ObservedEvent, fn |-> <<h, n>>, extra |-> 0]

\* useTypedEvent(event, listener)
useTypedEvent(event, listener) ==
    [target |-> event, fn |-> listener, extra |-> 0]

\* refreshOnTypedEvent(event): listener is a new function per render.
refreshOnTypedEvent(h, n, event) ==
    [target |-> event, fn |-> <<h, n>>, extra |-> 0]

\* useShortcut(shortcut, callback, deps)
useShortcut(shortcut, callback, deps) ==
    [target |-> shortcut, fn |-> callback, extra |-> deps]

\* The effects and their cleanups; w is [listeners, shortcuts], d the
\* dependencies the effect's closure captured.
observeEffect(w, d) == [w EXCEPT !.listeners[d.target] = on(@, d.fn)]

\* Mutant of observeCleanup: the listener is not removed.
observeCleanupNone(w, d) == w

observeCleanup(w, d) == [w EXCEPT !.listeners[d.target] = off(@, d.fn)]

useTypedEventEffect(w, d) == [w EXCEPT !.listeners[d.target] = on(@, d.fn)]

useTypedEventCleanup(w, d) == [w EXCEPT !.listeners[d.target] = off(@, d.fn)]

refreshOnTypedEventEffect(w, d) ==
    [w EXCEPT !.listeners[d.target] = on(@, d.fn)]

refreshOnTypedEventCleanup(w, d) ==
    [w EXCEPT !.listeners[d.target] = off(@, d.fn)]

useShortcutEffect(w, d) == [w EXCEPT !.shortcuts[d.target] = d.fn]

useShortcutCleanup(w, d) == [w EXCEPT !.shortcuts[d.target] = NoFn]

RunEffect(h, w, d) ==
    CASE h = "observe" -> observeEffect(w, d)
      [] h \in {"typed1", "typed2"} -> useTypedEventEffect(w, d)
      [] h = "refresh" -> refreshOnTypedEventEffect(w, d)
      [] h \in ShortcutInst -> useShortcutEffect(w, d)

RunCleanup(h, w, d) ==
    CASE h = "observe" -> observeCleanup(w, d)
      [] h \in {"typed1", "typed2"} -> useTypedEventCleanup(w, d)
      [] h = "refresh" -> refreshOnTypedEventCleanup(w, d)
      [] h \in ShortcutInst -> useShortcutCleanup(w, d)

World == [listeners |-> listeners, shortcuts |-> shortcuts]

SetWorld(w) ==
    /\ listeners' = w.listeners
    /\ shortcuts' = w.shortcuts

\* The dependency lists a render of h can produce, over the arguments its
\* component can pass.
RenderDeps(h) ==
    CASE h = "observe" -> {observe(h, gen[h] + 1)}
      [] h \in {"typed1", "typed2"} ->
            {useTypedEvent(e, l) : e \in Events,
                                   l \in CallerFns \cup {<<h, gen[h] + 1>>}}
      [] h = "refresh" ->
            {refreshOnTypedEvent(h, gen[h] + 1, e) : e \in Events}
      [] h \in ShortcutInst ->
            {useShortcut(k, <<h, gen[h] + 1>>, id) : k \in Keys, id \in {1}}

\* The number of renders so far, of all components.
Renders ==
    gen["observe"] + gen["typed1"] + gen["typed2"] + gen["refresh"]
        + gen["pageA"] + gen["pageB"]

ReactInit ==
    /\ mounted = [h \in Inst |-> FALSE]
    /\ pending = [h \in Inst |-> "none"]
    /\ rendered = [h \in Inst |-> NoDeps]
    /\ effect = [h \in Inst |-> NoDeps]
    /\ gen = [h \in Inst |-> 0]
    /\ dirty = [h \in Inst |-> FALSE]
    /\ listeners = [e \in Events |-> <<>>]
    /\ shortcuts = [k \in Keys |-> NoFn]

\* The component of h renders (the first render mounts it): the hook runs
\* and hands useEffect its function and dependencies.
Render(h) ==
    /\ pending[h] = "none"
    /\ Renders < MaxRenders
    /\ \E d \in RenderDeps(h) : rendered' = [rendered EXCEPT ![h] = d]
    /\ mounted' = [mounted EXCEPT ![h] = TRUE]
    /\ gen' = [gen EXCEPT ![h] = @ + 1]
    /\ dirty' = [dirty EXCEPT ![h] = FALSE]
    /\ pending' = [pending EXCEPT ![h] = "cleanup"]
    /\ UNCHANGED <<effect, listeners, shortcuts>>
    /\ UNCHANGED <<poolVars, startVars, techVars>>

\* After the render: with unchanged dependencies the effect stays in place;
\* otherwise the cleanup of the previous effect runs, if there is one.
CommitCleanup(h) ==
    /\ pending[h] = "cleanup"
    /\ IF effect[h] = NoDeps
       THEN /\ pending' = [pending EXCEPT ![h] = "effect"]
            /\ UNCHANGED <<effect, listeners, shortcuts>>
       ELSE IF effect[h] = rendered[h]
       THEN /\ pending' = [pending EXCEPT ![h] = "none"]
            /\ UNCHANGED <<effect, listeners, shortcuts>>
       ELSE /\ SetWorld(RunCleanup(h, World, effect[h]))
            /\ effect' = [effect EXCEPT ![h] = NoDeps]
            /\ pending' = [pending EXCEPT ![h] = "effect"]
    /\ UNCHANGED <<mounted, rendered, gen, dirty>>
    /\ UNCHANGED <<poolVars, startVars, techVars>>

\* Then the effect of the latest render runs.
CommitEffect(h) ==
    /\ pending[h] = "effect"
    /\ SetWorld(RunEffect(h, World, rendered[h]))
    /\ effect' = [effect EXCEPT ![h] = rendered[h]]
    /\ pending' = [pending EXCEPT ![h] = "none"]
    /\ UNCHANGED <<mounted, rendered, gen, dirty>>
    /\ UNCHANGED <<poolVars, startVars, techVars>>

\* The component of h unmounts: the cleanup of its effect runs.
Unmount(h) ==
    /\ mounted[h]
    /\ pending[h] = "none"
    /\ SetWorld(RunCleanup(h, World, effect[h]))
    /\ effect' = [effect EXCEPT ![h] = NoDeps]
    /\ rendered' = [rendered EXCEPT ![h] = NoDeps]
    /\ mounted' = [mounted EXCEPT ![h] = FALSE]
    /\ dirty' = [dirty EXCEPT ![h] = FALSE]
    /\ UNCHANGED <<pending, gen>>
    /\ UNCHANGED <<poolVars, startVars, techVars>>

\* event.emit(data): every registered listener is called; handleEvent and
\* the listener of refreshOnTypedEvent call their component's state setter.
Emit(e) ==
    /\ dirty' = [h \in Inst |->
                    IF /\ h \in {"observe", "refresh"}
                       /\ \E i \in 1..Len(listeners[e]) : listeners[e][i][1] = h
                    THEN TRUE
                    ELSE dirty[h]]
    /\ dirty' # dirty
    /\ UNCHANGED <<mounted, pending, rendered, effect, gen, listeners,
                   shortcuts>>
    /\ UNCHANGED <<poolVars, startVars, techVars>>

\* ------------------------------------------------------------ TechPage
\* A small tech tree: tech 1 has no prerequisite, techs 2 and 3 require
\* tech 1, tech 4 requires tech 2 and lies beyond MAX_TECH_COLUMN.
Techs == 1..4

MAX_TECH_COLUMN == 2

TechColumn(t) == IF t = 1 THEN 1 ELSE IF t = 4 THEN 3 ELSE 2

RequireTech(t) == IF t = 1 THEN {} ELSE IF t = 4 THEN {2} ELSE {1}

\* getTechUnlockCost(id)
getTechUnlockCost(t) == TechColumn(t) + 1

\* getCurrentAge(gs): the age of the latest column unlocked, 0 for none.
getCurrentAge(unlocked) ==
    IF unlocked = {} THEN 0
    ELSE CHOOSE a \in {TechColumn(t) : t \in unlocked} :
            \A t \in unlocked : TechColumn(t) <= a

\* getScienceAmount(gs)
getScienceAmount(s) == s

\* tryDeductScience(cost, gs): deducts when the science suffices.
tryDeductScience(cost, s) ==
    IF s >= cost THEN [ok |-> TRUE, science |-> s - cost]
    ELSE [ok |-> FALSE, science |-> s]

\* unlockTech(id, true, gs)
unlockTech(t, unlocked) == unlocked \cup {t}

NoClosure ==
    [rendered |-> FALSE, id |-> 1, canUnlockDefined |-> FALSE,
     prerequisitesSatisfied |-> FALSE, progressOk |-> FALSE,
     unlockedAtRender |-> FALSE]

\* isTechAvailable()
isTechAvailable(t) == TechColumn(t) <= MAX_TECH_COLUMN

\* The body of TechPage: what the closures unlock and canUnlock capture.
\* For a tech that is not available the function returns before canUnlock,
\* and the values canUnlock reads, are defined.
TechPage(t) ==
    IF ~isTechAvailable(t)
    THEN [NoClosure EXCEPT !.rendered = TRUE, !.id = t]
    ELSE [rendered |-> TRUE, id |-> t, canUnlockDefined |-> TRUE,
          prerequisitesSatisfied |-> RequireTech(t) \subseteq unlockedTech,
          progressOk |-> getScienceAmount(science) >= getTechUnlockCost(t),
          unlockedAtRender |-> t \in unlockedTech]

\* Mutant of canUnlock: gs.unlockedTech[id] as it was at the render.
canUnlockAtRender(c, unlocked) ==
    /\ c.canUnlockDefined
    /\ c.prerequisitesSatisfied
    /\ c.progressOk
    /\ ~c.unlockedAtRender

\* canUnlock(): the prerequisites and the progress are those of the render,
\* gs.unlockedTech[id] is read at the call.
canUnlock(c, unlocked) ==
    /\ c.canUnlockDefined
    /\ c.prerequisitesSatisfied
    /\ c.progressOk
    /\ c.id \notin unlocked

TechInit ==
    /\ science = 0
    /\ unlockedTech = {}
    /\ greatPeopleChoices = 0
    /\ closure = NoClosure
    /\ unlockCalls = 0
    /\ lastResult = "none"
    /\ sound = "none"
    /\ notified = FALSE

\* TechPage renders for tech t (a route change, or a refresh after
\* notifyGameStateUpdate) and its button and shortcuts are committed.
RenderTechPage ==
    /\ \E t \in Techs : closure' = TechPage(t)
    /\ closure' # closure \/ notified
    /\ notified' = FALSE
    /\ UNCHANGED <<science, unlockedTech, greatPeopleChoices, unlockCalls,
                   lastResult, sound>>
    /\ UNCHANGED <<poolVars, startVars, reactVars>>

\* The game produces science.
ProduceScience ==
    /\ science < MaxScience
    /\ science' = science + 1
    /\ UNCHANGED <<unlockedTech, greatPeopleChoices, closure, unlockCalls,
                   lastResult, sound, notified>>
    /\ UNCHANGED <<poolVars, startVars, reactVars>>

\* unlock(), called by the button or by the TechPageUnlockTech shortcut.
Unlock ==
    /\ closure.rendered
    /\ unlockCalls < MaxUnlockCalls
    /\ unlockCalls' = unlockCalls + 1
    /\ LET id == closure.id
           deducted == tryDeductScience(getTechUnlockCost(id), science)
       IN
       IF ~isTechAvailable(id) \/ ~canUnlock(closure, unlockedTech)
       THEN /\ lastResult' = "cannotUnlock"
            /\ UNCHANGED <<science, unlockedTech, greatPeopleChoices, sound,
                           notified>>
       ELSE IF ~deducted.ok
       THEN /\ lastResult' = "noScience"
            /\ UNCHANGED <<science, unlockedTech, greatPeopleChoices, sound,
                           notified>>
       ELSE LET oldAge == getCurrentAge(unlockedTech)
                newAge == getCurrentAge(unlockTech(id, unlockedTech))
            IN
            /\ science' = deducted.science
            /\ unlockedTech' = unlockTech(id, unlockedTech)
            /\ IF oldAge # 0 /\ newAge # 0 /\ oldAge # newAge
               THEN \E rolled \in 0..newAge :
                       greatPeopleChoices' = greatPeopleChoices + rolled
               ELSE UNCHANGED greatPeopleChoices
            /\ sound' = IF greatPeopleChoices' > 0 THEN "gong" ELSE "upgrade"
            /\ notified' = TRUE
            /\ lastResult' = "unlocked"
    /\ UNCHANGED closure
    /\ UNCHANGED <<poolVars, startVars, reactVars>>

\* ------------------------------------------------------ specifications
Init == PoolInit /\ StartInit /\ ReactInit /\ TechInit

NextPool == Allocate \/ Release

SpecPool == Init /\ [][NextPool]_vars

NextStart ==
    \/ LoadGame
    \/ InitializeSavedGame
    \/ GetGameState
    \/ InitializeGameState
    \/ InitializeSingletons
    \/ ConnectWebSocket
    \/ FirstTick
    \/ LoadScene
    \/ StartTicker
    \/ GetBetaName
    \/ FrameCallback
    \/ IntervalCallback

SpecStart == Init /\ [][NextStart]_vars

NextHooks ==
    \/ \E h \in HookInst : Render(h)
    \/ \E h \in HookInst : CommitCleanup(h)
    \/ \E h \in HookInst : CommitEffect(h)
    \/ \E h \in HookInst : Unmount(h)
    \/ \E e \in Events : Emit(e)

SpecHooks == Init /\ [][NextHooks]_vars

NextShortcut ==
    \/ \E h \in ShortcutInst : Render(h)
    \/ \E h \in ShortcutInst : CommitCleanup(h)
    \/ \E h \in ShortcutInst : CommitEffect(h)
    \/ \E h \in ShortcutInst : Unmount(h)

SpecShortcut == Init /\ [][NextShortcut]_vars

NextTech == RenderTechPage \/ ProduceScience \/ Unlock

SpecTech == Init /\ [][NextTech]_vars

\* ------------------------------------------------------ pool properties
Instances == active \cup Range(idle)

PoolPartition ==
    /\ active \cap Range(idle) = {}
    /\ Instances = Range(children)
    /\ Instances = 1..Len(heap)
    /\ Cardinality(Instances) = createCount

\* C1: after any sequence of allocate() and release() calls the active set
\* and the idle set are disjoint, their union is exactly the set of instances
\* the construction hook has produced (the sprites built, which are the
\* parent's children), and the number of instances never decreases.
C1_Partition ==
    /\ PoolPartition
    /\ [][/\ PoolPartition'
          /\ Instances \subseteq Instances'
          /\ Cardinality(Instances') >= Cardinality(Instances)]_vars

C1_Witness ==
    /\ Cardinality(active) = 2
    /\ Len(idle) = 1
    /\ createCount = 3
    /\ nRel >= 2

\* C2: allocate() never returns an instance that is in the active set at the
\* call, so no instance is handed out twice without a release in between.
C2_NoAliasing ==
    /\ [](\A i \in DOMAIN outstanding : outstanding[i] <= 1)
    /\ [][(calls' = calls + 1 /\ op'.name = "allocate")
             => (op'.obj \notin active /\ op'.obj \in active')]_vars

C2_Witness ==
    /\ op.name = "allocate"
    /\ Cardinality(active) = 2
    /\ createCount = 2
    /\ nAlloc = 3

\* C3: the construction hook runs only in an allocate() that finds the idle
\* set empty; with a non-empty idle set allocate() returns one of the idle
\* instances and the construction count stays as it was.
C3_ReuseBeforeGrowth ==
    /\ [][(calls' = calls + 1 /\ op'.name = "allocate" /\ idle # <<>>)
             => (createCount' = createCount /\ op'.obj \in Range(idle))]_vars
    /\ [][createCount' # createCount
             => (idle = <<>> /\ op'.name = "allocate"
                 /\ createCount' = createCount + 1)]_vars

\* allocate A, allocate B, release(A), allocate returns A; two constructions.
C3_Witness ==
    /\ op.name = "allocate"
    /\ op.obj = 1
    /\ active = {1, 2}
    /\ nAlloc = 3
    /\ nRel = 1
    /\ createCount = 2

C5_RoundTrip ==
    (phase = "release" /\ nRel = nAlloc)
        => (Len(idle) = nAlloc /\ active = {})

C5_Witness ==
    /\ phase = "release"
    /\ nAlloc = 3
    /\ nRel = 3
    /\ idle = <<2, 3, 1>>

\* C6: on-allocate runs exactly once per allocate(), on the returned
\* instance, which is then in the active set; on-release runs exactly once
\* per valid release(), on the released instance, which has then left the
\* active set. A sprite that allocate() returns has alpha 0.5 (a sprite just
\* built too) and every sprite in the idle set has alpha 0.
C6_Hooks ==
    /\ op.name = "allocate"
          => /\ op.hooks = <<[hook |-> "onAllocate", obj |-> op.obj,
                              inActive |-> TRUE]>>
             /\ heap[op.obj].alpha = DefaultAlpha
    /\ (op.name = "release" /\ ~op.fault)
          => op.hooks = <<[hook |-> "onRelease", obj |-> op.obj,
                           inActive |-> FALSE]>>
    /\ (op.name = "release" /\ op.fault) => op.hooks = <<>>
    /\ \A i \in Range(idle) : heap[i].alpha = 0
    /\ \A i \in active : heap[i].alpha = DefaultAlpha

\* A reused sprite is returned while another sprite stays idle.
C6_Witness ==
    /\ op.name = "allocate"
    /\ idle # <<>>
    /\ createCount = 2
    /\ nAlloc = 3

\* ------------------------------------------------- startGame properties
Pos(e) == CHOOSE i \in 1..Len(log) : log[i] = e

Before(a, b) == b \in Range(log) => (a \in Range(log) /\ Pos(a) < Pos(b))

\* C7: in startGame the saved data is loaded and exactly one of
\* initializeSavedGame (data present) and initializeGameState (no data) runs;
\* then the singletons are initialized, then the websocket connects, then
\* tickEverySecond runs once, then WorldScene is loaded, and only then are
\* the frame ticker and the 1-second interval started.
C7_StartOrder ==
    /\ \A e \in Range(log) : Count(log, e) = 1
    /\ Before("loadGame", "initializeSavedGame")
    /\ Before("loadGame", "initializeGameState")
    /\ "initializeSavedGame" \in Range(log) => data = "present"
    /\ "initializeGameState" \in Range(log) => data = "absent"
    /\ ~({"initializeSavedGame", "initializeGameState"} \subseteq Range(log))
    /\ "initializeSingletons" \in Range(log)
          => \E e \in {"initializeSavedGame", "initializeGameState"} :
                Before(e, "initializeSingletons") /\ e \in Range(log)
    /\ Before("initializeSingletons", "connectWebSocket")
    /\ Before("connectWebSocket", "tickEverySecond")
    /\ Before("tickEverySecond", "loadScene")
    /\ Before("loadScene", "startTicker")
    /\ ("loadScene" \in Range(log) /\ "startTicker" \notin Range(log))
          => secondTicks = 1
    /\ "tickEverySecond" \notin Range(log) => secondTicks = 0
    /\ (tickerAdded \/ intervalSet) <=> "startTicker" \in Range(log)
    /\ (frames > 0 \/ secondTicks > 1 \/ saves > 0) => "loadScene" \in Range(log)

\* A new player's game runs: frames and interval ticks after the scene.
C7_Witness ==
    /\ data = "absent"
    /\ "initializeGameState" \in Range(log)
    /\ frames > 0
    /\ secondTicks > 2
    /\ saves > 0

\* ------------------------------------------------------ hook properties
\* The registrations on any event that are closures of hook instance h.
OwnCount(h) ==
    Cardinality({<<e, i>> \in Events \X (1..(2 * Cardinality(HookInst))) :
                    i <= Len(listeners[e]) /\ listeners[e][i][1] = h})

\* The hook instances whose effect in place registered l on e.
Subscribers(e, l) ==
    {h \in HookInst : effect[h].target = e /\ effect[h].fn = l}

\* C8: for every mounted use of observe, useTypedEvent and
\* refreshOnTypedEvent, at any time at most one listener of that instance is
\* registered on the events (a listener is registered at most once for each
\* instance whose effect with that event and listener is in place), and
\* after unmount no listener of the instance is registered.
C8_OneListener ==
    /\ \A e \in Events : \A l \in Range(listeners[e]) :
          Count(listeners[e], l) <= Cardinality(Subscribers(e, l))
    /\ \A h \in HookInst :
          /\ OwnCount(h) <= 1
          /\ ~mounted[h] => (effect[h] = NoDeps /\ OwnCount(h) = 0)

\* observe has re-subscribed after a second render, both uses of
\* useTypedEvent have the same listener on the same event, and refresh was
\* unmounted after it had subscribed.
C8_Witness ==
    /\ effect["observe"].fn = <<"observe", 2>>
    /\ effect["typed1"] = effect["typed2"]
    /\ effect["typed1"].fn = <<"caller", 1>>
    /\ gen["refresh"] = 1
    /\ ~mounted["refresh"]

\* C9: the cleanup of one component's useShortcut effect never clears or
\* replaces the registry entry that holds the callback of another component
\* that is still mounted with its effect in place.
C9_CleanupKeepsOthers ==
    [][\A h \in ShortcutInst :
          (effect[h] # NoDeps /\ effect'[h] = NoDeps)
             => \A k \in Keys :
                   (/\ shortcuts[k] # NoFn
                    /\ shortcuts[k][1] # h
                    /\ effect[shortcuts[k][1]].fn = shortcuts[k])
                      => shortcuts'[k] = shortcuts[k]]_vars

\* -------------------------------------------------- TechPage properties
GameState == <<science, unlockedTech, greatPeopleChoices>>

\* C10: a call of unlock changes the game state only when, at the call, the
\* tech's column is at most MAX_TECH_COLUMN, all its prerequisites are
\* unlocked, the tech is not unlocked and the science covers the cost; then
\* the tech becomes unlocked and its cost is deducted. In every other case
\* the game state is unchanged, so science is deducted exactly when the tech
\* becomes unlocked.
C10_UnlockGuarded ==
    [][unlockCalls' = unlockCalls + 1
          => LET id == closure.id IN
             /\ GameState' # GameState
                   => /\ TechColumn(id) <= MAX_TECH_COLUMN
                      /\ RequireTech(id) \subseteq unlockedTech
                      /\ id \notin unlockedTech
                      /\ science >= getTechUnlockCost(id)
                      /\ unlockedTech' = unlockedTech \cup {id}
                      /\ science' = science - getTechUnlockCost(id)
                      /\ lastResult' = "unlocked"
             /\ science' # science <=> unlockedTech' # unlockedTech
             /\ lastResult' # "unlocked" => GameState' = GameState]_vars

\* unlock is called a second time before TechPage renders again, with
\* enough science for a second deduction, and returns without a change.
C10_Witness ==
    /\ lastResult = "cannotUnlock"
    /\ closure.canUnlockDefined
    /\ closure.prerequisitesSatisfied
    /\ closure.progressOk
    /\ ~closure.unlockedAtRender
    /\ closure.id \in unlockedTech
    /\ science >= getTechUnlockCost(closure.id)
    /\ greatPeopleChoices > 0

====
